---- MODULE Spec2Model ----
(***************************************************************************)
(* scripts/releases/set-version/index.js: setVersion(version, skip) sets   *)
(* one version for every public package of the monorepo.  The model keeps  *)
(* the package.json files on disk, the in-memory package map returned by   *)
(* getPackages, the promise of setReactNativeVersion, the fs.writeFile     *)
(* promises fanned out by Promise.all, the promise of setVersion and the   *)
(* exit code of the process.                                               *)
(***************************************************************************)
EXTENDS Integers, Sequences, FiniteSets, TLC

\* Bounds of the model.
MaxPackages == 2
MaxRuns == 2

\* ------------------------------------------------------------------------
\* Values
\* ------------------------------------------------------------------------

\* 'react-native', the package excluded from the manifest rewrites.
ReactNative == "react-native"

\* '1000.0.0', the version react-native keeps on main.
Sentinel == "1000.0.0"

\* The JavaScript value undefined (a manifest without a name field).
Undefined == "<undefined>"

\* The package directories: 0 is packages/react-native.
RNPath == 0

Paths == 0..MaxPackages

PkgNames == <<"tool-a", "core", "cli", "metro-cfg", "codegen">>

NameOf(d) == IF d = RNPath THEN ReactNative ELSE PkgNames[d]

\* The versions a run may be asked to set (the <to-version> argument).
ToVersions == {"0.2.0", "0.1.0"}

\* ------------------------------------------------------------------------
\* Manifests (PackageJson) and files
\* ------------------------------------------------------------------------

\* A dependency field that is absent from the manifest (deps == null).
Absent == [present |-> FALSE, map |-> [k \in {} |-> ""]]

Deps(f) == [present |-> TRUE, map |-> f]

OldDep(k) ==
    IF k = ReactNative THEN Sentinel ELSE IF k = "left-pad" THEN "^1.3.0" ELSE "0.1.0"

DependenciesChoices ==
    {Absent, Deps([k \in {ReactNative, "left-pad"} |-> OldDep(k)])}

DevDependenciesChoices ==
    {Absent, Deps([k \in {"tool-a", "left-pad"} |-> OldDep(k)]),
     Deps([k \in {ReactNative} |-> OldDep(k)])}

PeerDeps == Deps([k \in {ReactNative} |-> "*"])

\* for (const dependencyField of ['dependencies', 'devDependencies'])
DependencyFields == {"dependencies", "devDependencies"}

\* The shape of one package's manifest on disk before the first run.
Shapes ==
    [nameless : BOOLEAN, dependencies : DependenciesChoices,
     devDependencies : DevDependenciesChoices]

MkManifest(d, s) ==
    [name |-> IF s.nameless THEN Undefined ELSE NameOf(d),
     version |-> IF d = RNPath THEN Sentinel ELSE "0.1.0",
     dependencies |-> s.dependencies,
     devDependencies |-> s.devDependencies,
     peerDependencies |-> IF d = RNPath THEN Absent ELSE PeerDeps]

RNShape ==
    [nameless |-> FALSE,
     dependencies |-> Deps([k \in {"tool-a", "left-pad"} |-> OldDep(k)]),
     devDependencies |-> Absent]

\* JSON.parse of a manifest file: the formatting is dropped.
Parse(file) == file.json

\* JSON.stringify(packageJson, null, 2) + '\n'
Stringify(packageJson) == [indent |-> 2, json |-> packageJson]

\* A value used as a property key: undefined becomes 'undefined'.
ToKey(name) == IF name = Undefined THEN "undefined" ELSE name

\* ------------------------------------------------------------------------
\* State
\* ------------------------------------------------------------------------
VARIABLES
    disk,               \* path -> manifest file
    version,            \* argument <to-version>
    skip,               \* argument skipReactNativeVersion
    run,                \* number of the current run of the script
    pc,                 \* where setVersion is
    packages,           \* result of getPackages, mutated by updatePackageJson
    newPackageVersions, \* package name -> version
    setter,             \* promise of setReactNativeVersion
    setterArg,          \* version setReactNativeVersion was called with
    writes,             \* path -> promise of fs.writeFile
    issued,             \* path -> number of fs.writeFile calls of this run
    result,             \* promise of setVersion
    exitCode            \* process exit code, -1 while running

vars ==
    <<disk, version, skip, run, pc, packages, newPackageVersions, setter,
      setterArg, writes, issued, result, exitCode>>

NoPackages == [k \in {} |-> 0]

NoVersions == [k \in {} |-> ""]

NoWrites == [d \in Paths |-> "none"]

NoneIssued == [d \in Paths |-> 0]

InitialDisks ==
    UNION {
      UNION {
        { [d \in 0..n |->
             [indent |-> ind,
              json |-> MkManifest(d, IF d = RNPath THEN RNShape ELSE c[d])]]
          : c \in {x \in [1..n -> Shapes] :
                     Cardinality({d \in 1..n : x[d].nameless}) <= 1} }
        : ind \in {2, 4} }
      : n \in 0..MaxPackages }

Init ==
    /\ disk \in InitialDisks
    /\ version \in ToVersions
    /\ skip \in BOOLEAN
    /\ run = 1
    /\ pc = "getPackages"
    /\ packages = NoPackages
    /\ newPackageVersions = NoVersions
    /\ setter = "idle"
    /\ setterArg = ""
    /\ writes = NoWrites
    /\ issued = NoneIssued
    /\ result = "pending"
    /\ exitCode = -1

\* ------------------------------------------------------------------------
\* The collaborators
\* ------------------------------------------------------------------------

\* getPackages({includePrivate: false, includeReactNative: true}): a map
\* from package name to {name, path, packageJson}.
GetPackages(dk) ==
    [k \in {ToKey(dk[d].json.name) : d \in DOMAIN dk} |->
        LET d == CHOOSE e \in DOMAIN dk : ToKey(dk[e].json.name) = k
        IN  [name |-> dk[d].json.name, path |-> d, packageJson |-> Parse(dk[d])]]

\* setReactNativeVersion(version, dependencyVersions): stamps the manifest
\* of react-native with the version and the dependency versions given.
SetReactNativeVersion(dk, v, mapping) ==
    LET old == Parse(dk[RNPath])
        upd(deps) ==
            IF ~deps.present THEN deps
            ELSE Deps([k \in DOMAIN deps.map |->
                        IF k \in DOMAIN mapping THEN mapping[k] ELSE deps.map[k]])
    IN  [dk EXCEPT ![RNPath] =
            Stringify([old EXCEPT !.version = v,
                                  !.dependencies = upd(@),
                                  !.devDependencies = upd(@)])]

\* ------------------------------------------------------------------------
\* updatePackageJson
\* ------------------------------------------------------------------------

\* The version is left as it is.
UpdateVersionNoop(packageJson, mapping) == packageJson

\* if (packageName in newPackageVersions) packageJson.version = ...
UpdateVersion(packageJson, mapping) ==
    IF ToKey(packageJson.name) \in DOMAIN mapping
    THEN [packageJson EXCEPT !.version = mapping[ToKey(packageJson.name)]]
    ELSE packageJson

\* Every key of the mapping is written, whether the field has it or not.
UpdateDepsAdding(deps, mapping) ==
    IF ~deps.present THEN deps
    ELSE Deps([k \in DOMAIN deps.map \cup DOMAIN mapping |->
                IF k \in DOMAIN mapping THEN mapping[k] ELSE deps.map[k]])

\* for (const dependency in newPackageVersions)
\*   if (dependency in deps) deps[dependency] = newPackageVersions[dependency]
UpdateDeps(deps, mapping) ==
    IF ~deps.present THEN deps
    ELSE Deps([k \in DOMAIN deps.map |->
                IF k \in DOMAIN mapping THEN mapping[k] ELSE deps.map[k]])

\* Only 'dependencies' is looped over.
UpdatePackageJsonDepsOnly(packageJson, mapping) ==
    [UpdateVersion(packageJson, mapping) EXCEPT
        !.dependencies = UpdateDeps(@, mapping)]

\* The dependency entries get the version field as it was read, the field
\* being assigned after the loop.
UpdatePackageJsonStale(packageJson, mapping) ==
    LET stale == [k \in DOMAIN mapping |-> packageJson.version]
    IN  [UpdateVersion(packageJson, mapping) EXCEPT
            !.dependencies = UpdateDeps(@, stale),
            !.devDependencies = UpdateDeps(@, stale)]

\* The synchronous part of updatePackageJson: the manifest as it is handed
\* to JSON.stringify.
UpdatePackageJson(packageJson, mapping) ==
    [UpdateVersion(packageJson, mapping) EXCEPT
        !.dependencies = UpdateDeps(@, mapping),
        !.devDependencies = UpdateDeps(@, mapping)]

\* ------------------------------------------------------------------------
\* setVersion
\* ------------------------------------------------------------------------

\* Object.fromEntries(Object.keys(packages).map(name => [name, version]))
NewPackageVersions(pkgs, v) == [k \in DOMAIN pkgs |-> v]

\* skipReactNativeVersion ? '1000.0.0' : version
SetterVersion(v, skipReactNativeVersion) ==
    IF skipReactNativeVersion THEN Sentinel ELSE v

\* No package is left out.
PackagesToUpdateAll(pkgs) == DOMAIN pkgs

\* A package without a name is left out as well.
PackagesToUpdateNamed(pkgs) ==
    {k \in DOMAIN pkgs : pkgs[k].name \notin {ReactNative, Undefined}}

\* Object.values(packages).filter(pkg => pkg.name !== 'react-native')
PackagesToUpdate(pkgs) == {k \in DOMAIN pkgs : pkgs[k].name # ReactNative}

\* The rewrites do not wait for setReactNativeVersion.
AwaitedNot(p) == p \in {"pending", "fulfilled"}

\* await setReactNativeVersion(...): the code after it runs once the promise
\* is fulfilled.
Awaited(p) == p = "fulfilled"

\* Fulfilled as soon as one promise is.
PromiseAny(w) ==
    IF \E d \in DOMAIN w : w[d] = "done" THEN "fulfilled"
    ELSE IF \A d \in DOMAIN w : w[d] = "none" THEN "fulfilled"
    ELSE IF \A d \in DOMAIN w : w[d] \in {"none", "failed"} THEN "rejected"
    ELSE "pending"

\* Promise.all over the fs.writeFile promises: rejected with the first
\* rejection, fulfilled when every promise is.
PromiseAll(w) ==
    IF \E d \in DOMAIN w : w[d] = "failed" THEN "rejected"
    ELSE IF \A d \in DOMAIN w : w[d] \in {"none", "done"} THEN "fulfilled"
    ELSE "pending"

\* setVersion(...).then(() => process.exit(0), error => process.exit(1))
ExitCode(p) == IF p = "fulfilled" THEN 0 ELSE 1

PathsOf(pkgs, keys) == {pkgs[k].path : k \in keys}

EntryAt(pkgs, d) == pkgs[CHOOSE k \in DOMAIN pkgs : pkgs[k].path = d]

\* getPackages resolves; the mapping is built and setReactNativeVersion is
\* called.
GetPackagesOk ==
    /\ pc = "getPackages"
    /\ packages' = GetPackages(disk)
    /\ newPackageVersions' = NewPackageVersions(packages', version)
    /\ setterArg' = SetterVersion(version, skip)
    /\ setter' = "pending"
    /\ pc' = "setReactNativeVersion"
    /\ UNCHANGED <<disk, version, skip, run, writes, issued, result, exitCode>>

\* getPackages rejects: so does setVersion.
GetPackagesFail ==
    /\ pc = "getPackages"
    /\ result' = "rejected"
    /\ pc' = "settled"
    /\ UNCHANGED <<disk, version, skip, run, packages, newPackageVersions,
                   setter, setterArg, writes, issued, exitCode>>

SetReactNativeVersionOk ==
    /\ setter = "pending"
    /\ exitCode = -1
    /\ disk' = SetReactNativeVersion(disk, setterArg, newPackageVersions)
    /\ setter' = "fulfilled"
    /\ UNCHANGED <<version, skip, run, pc, packages, newPackageVersions,
                   setterArg, writes, issued, result, exitCode>>

SetReactNativeVersionFail ==
    /\ setter = "pending"
    /\ exitCode = -1
    /\ setter' = "rejected"
    /\ UNCHANGED <<disk, version, skip, run, pc, packages, newPackageVersions,
                   setterArg, writes, issued, result, exitCode>>

\* The await of setReactNativeVersion throws: setVersion rejects.
SetVersionThrows ==
    /\ pc = "setReactNativeVersion"
    /\ setter = "rejected"
    /\ result' = "rejected"
    /\ pc' = "settled"
    /\ UNCHANGED <<disk, version, skip, run, packages, newPackageVersions,
                   setter, setterArg, writes, issued, exitCode>>

\* packagesToUpdate.map(updatePackageJson): every manifest is updated in
\* memory and its fs.writeFile is issued; Promise.all is awaited.
UpdatePackages ==
    /\ pc = "setReactNativeVersion"
    /\ Awaited(setter)
    /\ LET toUpdate == PackagesToUpdate(packages)
           targets == PathsOf(packages, toUpdate)
       IN  /\ packages' =
                [k \in DOMAIN packages |->
                    IF k \in toUpdate
                    THEN [packages[k] EXCEPT !.packageJson =
                             UpdatePackageJson(@, newPackageVersions)]
                    ELSE packages[k]]
           /\ writes' = [d \in Paths |-> IF d \in targets THEN "inflight" ELSE writes[d]]
           /\ issued' = [d \in Paths |-> IF d \in targets THEN issued[d] + 1 ELSE issued[d]]
    /\ result' = PromiseAll(writes')
    /\ pc' = IF result' = "pending" THEN "promiseAll" ELSE "settled"
    /\ UNCHANGED <<disk, version, skip, run, newPackageVersions, setter,
                   setterArg, exitCode>>

\* An fs.writeFile replaces the file and fulfils its promise.
WriteFileOk(d) ==
    /\ writes[d] = "inflight"
    /\ exitCode = -1
    /\ disk' = [disk EXCEPT ![d] = Stringify(EntryAt(packages, d).packageJson)]
    /\ writes' = [writes EXCEPT ![d] = "done"]
    /\ result' = IF result = "pending" THEN PromiseAll(writes') ELSE result
    /\ pc' = IF result' = "pending" THEN pc ELSE "settled"
    /\ UNCHANGED <<version, skip, run, packages, newPackageVersions, setter,
                   setterArg, issued, exitCode>>

\* An fs.writeFile fails and rejects its promise; the file is as it was.
WriteFileFail(d) ==
    /\ writes[d] = "inflight"
    /\ exitCode = -1
    /\ writes' = [writes EXCEPT ![d] = "failed"]
    /\ result' = IF result = "pending" THEN PromiseAll(writes') ELSE result
    /\ pc' = IF result' = "pending" THEN pc ELSE "settled"
    /\ UNCHANGED <<disk, version, skip, run, packages, newPackageVersions,
                   setter, setterArg, issued, exitCode>>

\* The handlers of setVersion(...).then(...): the process exits.
Exit ==
    /\ pc = "settled"
    /\ exitCode = -1
    /\ exitCode' = ExitCode(result)
    /\ pc' = "exited"
    /\ UNCHANGED <<disk, version, skip, run, packages, newPackageVersions,
                   setter, setterArg, writes, issued, result>>

\* The script is run again with the same arguments after a successful run.
RunAgain ==
    /\ pc = "exited"
    /\ exitCode = 0
    /\ run < MaxRuns
    /\ run' = run + 1
    /\ pc' = "getPackages"
    /\ packages' = NoPackages
    /\ newPackageVersions' = NoVersions
    /\ setter' = "idle"
    /\ setterArg' = ""
    /\ writes' = NoWrites
    /\ issued' = NoneIssued
    /\ result' = "pending"
    /\ exitCode' = -1
    /\ UNCHANGED <<disk, version, skip>>

Next ==
    \/ GetPackagesOk
    \/ GetPackagesFail
    \/ SetReactNativeVersionOk
    \/ SetReactNativeVersionFail
    \/ SetVersionThrows
    \/ UpdatePackages
    \/ \E d \in Paths : WriteFileOk(d)
    \/ \E d \in Paths : WriteFileFail(d)
    \/ Exit
    \/ RunAgain

Spec == Init /\ [][Next]_vars

\* ------------------------------------------------------------------------
\* Properties
\* ------------------------------------------------------------------------

Rewritten == {d \in DOMAIN disk \ {RNPath} : writes[d] = "done"}

Dispatched == \E d \in Paths : issued[d] > 0

\* C1: after a successful run every package other than react-native has on
\* disk the version of the mapping under its name, which is the requested
\* version, whether react-native is skipped or not.
OwnVersionSet ==
    exitCode = 0 =>
        \A d \in DOMAIN disk \ {RNPath} :
            LET m == disk[d].json
            IN  /\ ToKey(m.name) \in DOMAIN newPackageVersions
                /\ m.version = newPackageVersions[ToKey(m.name)]
                /\ m.version = version

OwnVersionSetWitness ==
    /\ exitCode = 0
    /\ run = 1
    /\ skip
    /\ version # "0.1.0"
    /\ \E d \in DOMAIN disk \ {RNPath} :
          disk[d].json.name = NameOf(d) /\ disk[d].json.version = version

\* C2: in every manifest the rewriter has written, every key of a present
\* dependency field that is a key of the mapping has the mapping's value.
Completeness ==
    \A d \in Rewritten :
        \A f \in DependencyFields :
            LET deps == disk[d].json[f]
            IN  deps.present =>
                    \A k \in DOMAIN deps.map \cap DOMAIN newPackageVersions :
                        deps.map[k] = newPackageVersions[k]

CompletenessWitness ==
    /\ version # "0.1.0"
    /\ \E d \in Rewritten :
          /\ disk[d].json.devDependencies.present
          /\ "tool-a" \in DOMAIN disk[d].json.devDependencies.map
          /\ disk[d].json.devDependencies.map["tool-a"] = version
          /\ disk[d].json.dependencies.present
          /\ disk[d].json.dependencies.map[ReactNative] = version

\* C3: with skipReactNativeVersion the mapping gives react-native the
\* version 1000.0.0 and every other package the requested version, and a
\* written dependency entry on react-native is 1000.0.0.
SentinelSubstitution ==
    (skip /\ ReactNative \in DOMAIN newPackageVersions) =>
        /\ newPackageVersions[ReactNative] = Sentinel
        /\ \A k \in DOMAIN newPackageVersions \ {ReactNative} :
              newPackageVersions[k] = version
        /\ \A d \in Rewritten : \A f \in DependencyFields :
              LET deps == disk[d].json[f]
              IN  (deps.present /\ ReactNative \in DOMAIN deps.map) =>
                      deps.map[ReactNative] = Sentinel

\* C4: no fs.writeFile is ever issued for the manifest of react-native, and
\* at most one per run for any other package.
DistinguishedExclusion ==
    /\ issued[RNPath] = 0
    /\ writes[RNPath] = "none"
    /\ \A d \in Paths : issued[d] <= 1
    /\ \A d \in Paths :
          issued[d] = 1 => d \in DOMAIN disk /\ disk[d].json.name # ReactNative

DistinguishedExclusionWitness ==
    /\ pc = "exited"
    /\ ReactNative \in DOMAIN packages
    /\ packages[ReactNative].path = RNPath
    /\ Rewritten # {}

\* C5: a step that changes the manifest of a package other than react-native
\* keeps its name and its other fields, creates no dependency field, adds
\* and removes no key, and keeps the value of every key that is not a key of
\* the mapping.
NonInterference ==
    [][\A d \in DOMAIN disk \ {RNPath} :
          LET a == disk[d].json
              b == disk'[d].json
          IN  /\ b.name = a.name
              /\ b.peerDependencies = a.peerDependencies
              /\ \A f \in DependencyFields :
                    /\ b[f].present = a[f].present
                    /\ DOMAIN b[f].map = DOMAIN a[f].map
                    /\ \A k \in DOMAIN a[f].map \ DOMAIN newPackageVersions :
                          b[f].map[k] = a[f].map[k]]_vars

NonInterferenceWitness ==
    /\ version # "0.1.0"
    /\ run = 1
    /\ \E d \in Rewritten :
          /\ disk[d].json.dependencies.present
          /\ disk[d].json.dependencies.map[ReactNative] = version
          /\ disk[d].json.dependencies.map["left-pad"] = "^1.3.0"
          /\ ~disk[d].json.devDependencies.present
          /\ "tool-a" \in DOMAIN newPackageVersions
          /\ "tool-a" \notin DOMAIN disk[d].json.dependencies.map

\* C6: a run that follows a successful run with the same arguments changes
\* no manifest on disk.
Idempotence == [][run >= 2 => disk' = disk]_vars

IdempotenceWitness ==
    /\ run = 2
    /\ exitCode = 0
    /\ version # "0.1.0"
    /\ \E d \in Rewritten :
          /\ disk[d].json.version = version
          /\ disk[d].json.devDependencies.present
          /\ "tool-a" \in DOMAIN disk[d].json.devDependencies.map
          /\ disk[d].json.devDependencies.map["tool-a"] = version

\* C7: the process exits with 0 only if setReactNativeVersion and every
\* manifest write succeeded, it exits with 1 if getPackages,
\* setReactNativeVersion or a write failed, and a manifest that was written
\* stays written.
Completion ==
    /\ exitCode = 0 =>
          /\ setter = "fulfilled"
          /\ \A d \in DOMAIN disk \ {RNPath} : writes[d] = "done"
    /\ (pc = "exited" /\ (setter # "fulfilled" \/ \E d \in Paths : writes[d] = "failed"))
          => exitCode = 1
    /\ \A d \in Rewritten : disk[d] = Stringify(EntryAt(packages, d).packageJson)

CompletionWitness ==
    /\ pc = "exited"
    /\ exitCode = 1
    /\ version # "0.1.0"
    /\ \E d \in Rewritten : disk[d].json.version = version
    /\ \E d \in Paths : writes[d] = "failed"

\* C8: while a manifest write is in flight the promise of setVersion is not
\* rejected.
FanIn == result = "rejected" => \A d \in Paths : writes[d] # "inflight"

\* C9: a package whose manifest has no name gets no manifest write and makes
\* the run exit with 1.
NamelessFails ==
    \A d \in DOMAIN disk \ {RNPath} :
        disk[d].json.name = Undefined =>
            /\ writes[d] \notin {"inflight", "done"}
            /\ pc = "exited" => exitCode = 1

\* C9 as amended: a package whose manifest has no name is rewritten like any
\* other: its write is issued with the others, and the run exits with 0 when
\* setReactNativeVersion and every write succeed, the manifest without a
\* name being written.
NamelessRewritten ==
    \A d \in DOMAIN disk \ {RNPath} :
        disk[d].json.name = Undefined =>
            /\ Dispatched => issued[d] = 1
            /\ (pc = "exited" /\ setter = "fulfilled" /\
                    \A e \in Paths : writes[e] # "failed")
                  => exitCode = 0 /\ writes[d] = "done"

NamelessRewrittenWitness ==
    /\ pc = "exited"
    /\ exitCode = 0
    /\ \E d \in Rewritten : disk[d].json.name = Undefined
    /\ \E d \in Rewritten : disk[d].json.name # Undefined

\* C10: a manifest write is issued only once setReactNativeVersion has
\* succeeded; if it fails the run exits with 1 and no write was issued; it is
\* called with 1000.0.0 when react-native is skipped and with the requested
\* version otherwise.
SetterFirst ==
    /\ (\E d \in Paths : issued[d] > 0 \/ writes[d] # "none") => setter = "fulfilled"
    /\ setter = "rejected" =>
          /\ \A d \in Paths : issued[d] = 0
          /\ pc = "exited" => exitCode = 1
    /\ setter # "idle" => setterArg = (IF skip THEN "1000.0.0" ELSE version)

SetterFirstWitness ==
    /\ pc = "exited"
    /\ setter = "rejected"
    /\ skip
    /\ Cardinality(DOMAIN disk) > 1

====
